---- MODULE Spec2Model ----
(***************************************************************************)
(* Session-addressed request router of the pitcrew MCP server              *)
(* (src/src/index.ts): handleHttpRequest, the activeSessions table and      *)
(* shutdown.  One step of the model is one run of JavaScript between two   *)
(* awaits: a handler runs from the point it is resumed to the next await   *)
(* (or to its end) without interruption, and at every await any other      *)
(* handler, or the shutdown routine, may run.  The MCP SDK transport and   *)
(* server are the environment: a call to transport.handleRequest,          *)
(* transport.close or server.close is issued in one step and returns or    *)
(* throws in a later step.                                                 *)
(***************************************************************************)
EXTENDS Bags, FiniteSets, Integers, Sequences, TLC

\* ---------------------------------------------------------------- bounds
MaxReqs == 3

MaxInFlight == 2

MaxSessions == 2

MaxIds == 2

\* runAgent invocations of one client process
MaxCalls == 2
\* cap on the `count` of one tool limiter
MaxCount == 2
\* ------------------------------------------------------------ value sets
Undefined == "undefined"

IdName == <<"u1", "u2", "u3", "u4", "u5">>

Ids == {IdName[i] : i \in 1..MaxIds}

\* The session objects {server, transport}, numbered in the order in which
\* createSessionState() built them; 0 stands for `undefined`.
States == 1..MaxSessions

NoState == 0

RawMethods == {Undefined, "GET", "POST", "DELETE"}

Urls == {<<>>, <<"/mcp">>, <<"/other", "x=1">>}

HeaderValues ==
    {[kind |-> "absent", vals |-> <<>>]}
    \cup {[kind |-> "string", vals |-> <<v>>] : v \in Ids \cup {""}}
    \cup {[kind |-> "array", vals |-> <<IdName[MaxIds], IdName[1]>>]}

\* ------------------------------------------------------------- responses
NoResponse == [kind |-> "none", status |-> 0, code |-> 0]

PathNotFound == [kind |-> "text", status |-> 404, code |-> 0]

TransportResponse == [kind |-> "transport", status |-> 0, code |-> 0]

\* the session-not-found error carrying the code of missing-session-id
SessionNotFoundOtherCode ==
    [kind |-> "jsonrpc", status |-> 404, code |-> -32000]

SessionNotFound == [kind |-> "jsonrpc", status |-> 404, code |-> -32001]

MissingSessionId == [kind |-> "jsonrpc", status |-> 400, code |-> -32000]

InternalError == [kind |-> "jsonrpc", status |-> 500, code |-> -32603]

\* ----------------------------------------------------------------- client
\* JavaScript null
Null == "null"

\* agent names runAgent is called with; the last is not in TOOL_BY_AGENT
AgentNames ==
    {"Master", "Triage", "Investigator", "Fix_Engineer", "Reporter", "Other"}

\* the methods the client sends (lines 201, 215, 233)
RpcMethods == {"initialize", "tools/list", "tools/call"}

\* session ids a caller of mcpRpc may pass
ClientIds == {IdName[i] : i \in 1..MaxCalls}

VARIABLES
    transportMode,    \* options.transport: "http" or "stdio"
    collide,          \* whether sessionIdGenerator may repeat an identifier
    activeSessions,   \* the Map, as its entries in insertion order
    sessionIdOf,      \* transport.sessionId of every session object
    constructed,      \* session objects built by createSessionState
    transportCloses,  \* calls of state.transport.close() per session object
    serverCloses,     \* calls of state.server.close() per session object
    handlers,         \* the bag of suspended handleHttpRequest calls
    received,         \* number of requests received so far
    returned,         \* the handleHttpRequest call that returned in the last step,
                      \* with pc "new" when none did
    shutdownPc,       \* position of shutdown()
    drainState,       \* the `state` of the for-of iteration in progress
    drainStart,       \* session objects registered when the drain began
    terminated,       \* ids whose DELETE handler removed the entry and returned
    sharedSessionId,  \* agent-runner.js line 14
    rpcId,            \* agent-runner.js line 13
    runs,             \* the runAgent invocations so far, in call order
    creates,          \* the direct mcpCreateSession calls so far
    rpcs,             \* the direct mcpRpc calls so far
    serverSessions    \* session ids the server answered an initialize with

clientVars == <<sharedSessionId, rpcId, runs, creates, rpcs, serverSessions>>

serverVars == <<transportMode, collide, activeSessions, sessionIdOf,
                constructed, transportCloses, serverCloses, handlers,
                received, returned, shutdownPc, drainState, drainStart,
                terminated>>

vars == <<serverVars, clientVars>>

\* ------------------------------------------------------- pure operators
\* JavaScript truthiness of a string | undefined
Truthy(x) == x # Undefined /\ x # ""

getSessionIdHeader(h) ==
    IF h.kind = "array"
    THEN IF Len(h.vals) > 0 THEN h.vals[1] ELSE Undefined
    ELSE IF h.kind = "string" THEN h.vals[1] ELSE Undefined

\* (req.url ?? "/").split("?")[0]; a url is given as its "?"-separated pieces
RequestPath(url) == IF url = <<>> THEN "/" ELSE url[1]

\* (req.method ?? "GET").toUpperCase(); the parser hands over upper case
RequestMethod(m) ==
    IF m = Undefined THEN "GET" ELSE m

\* what the requests of the model give for lines 392, 401 and 402
RequestPaths == {RequestPath(url) : url \in Urls}

RequestMethods == {RequestMethod(m) : m \in RawMethods}

SessionIdHeaders == {getSessionIdHeader(h) : h \in HeaderValues}

\* writeJsonError without the res.headersSent test of lines 363-365
writeJsonErrorUnguarded(response, error) == error

\* writeJsonError: nothing is written once the headers have been sent
writeJsonError(response, error) ==
    IF response.kind # "none" THEN response ELSE error

\* Map operations on the entry list
MapKeys(m) == {m[i].key : i \in 1..Len(m)}

MapHas(m, k) == k \in MapKeys(m)

MapGet(m, k) ==
    IF MapHas(m, k)
    THEN m[CHOOSE i \in 1..Len(m) : m[i].key = k].state
    ELSE NoState

MapSet(m, k, s) ==
    IF MapHas(m, k)
    THEN [i \in 1..Len(m) |->
            IF m[i].key = k THEN [key |-> k, state |-> s] ELSE m[i]]
    ELSE Append(m, [key |-> k, state |-> s])

MapDelete(m, k) == SelectSeq(m, LAMBDA e : e.key # k)

MapStates(m) == {m[i].state : i \in 1..Len(m)}

\* ------------------------------------------------ decisions of the router
\* Dispatch with the lookup of line 408 skipped for POST
DispatchPostCreates(sessionId, method, table) ==
    IF Truthy(sessionId) /\ method # "POST"
    THEN IF MapGet(table, sessionId) = NoState THEN "notFound" ELSE "forward"
    ELSE IF method = "POST" THEN "create" ELSE "missingId"

\* Dispatch with line 413 testing for "not GET" instead of "POST"
DispatchNonGetCreates(sessionId, method, table) ==
    IF Truthy(sessionId)
    THEN IF MapGet(table, sessionId) = NoState THEN "notFound" ELSE "forward"
    ELSE IF method # "GET" THEN "create" ELSE "missingId"

\* lines 407-419: what handleHttpRequest does with the request
Dispatch(sessionId, method, table) ==
    IF Truthy(sessionId)
    THEN IF MapGet(table, sessionId) = NoState THEN "notFound" ELSE "forward"
    ELSE IF method = "POST" THEN "create" ELSE "missingId"

\* RegisterEstablished without the activeSessions.has test of line 425
RegisterAlways(table, established, state) ==
    IF Truthy(established)
    THEN MapSet(table, established, state)
    ELSE table

\* RegisterEstablished without the truthiness test of line 425
RegisterUndefined(table, established, state) ==
    IF ~MapHas(table, established)
    THEN MapSet(table, established, state)
    ELSE table

\* RegisterEstablished that keeps a single session
RegisterFirstOnly(table, established, state) ==
    IF Truthy(established) /\ table = <<>>
    THEN MapSet(table, established, state)
    ELSE table

\* lines 424-427: register the established id when it is absent
RegisterEstablished(table, established, state) ==
    IF Truthy(established) /\ ~MapHas(table, established)
    THEN MapSet(table, established, state)
    ELSE table

\* line 429
NeedsTeardown(createdForRequest, established) ==
    createdForRequest /\ ~Truthy(established)

\* line 434
IsTerminate(method, sessionId) == method = "DELETE" /\ Truthy(sessionId)

\* ------------------------------------------------------------ environment
\* sessionIdGenerator (randomUUID): an identifier no transport holds (the
\* first unused name stands for all of them), or, when identifiers may
\* repeat, also any identifier a transport already holds
UsedIds == {sessionIdOf[s] : s \in States} \ {Undefined}

FreshIds ==
    IF Ids \ UsedIds = {}
    THEN {}
    ELSE {IdName[CHOOSE i \in 1..MaxIds :
             /\ IdName[i] \notin UsedIds
             /\ \A j \in 1..(i - 1) : IdName[j] \in UsedIds]}

GeneratedIds == IF collide THEN UsedIds \cup FreshIds ELSE FreshIds

\* transport.sessionId after transport.handleRequest: an initialised
\* transport keeps its id, a fresh one may have handled initialize
SessionIdAfter(s) ==
    IF sessionIdOf[s] # Undefined
    THEN {sessionIdOf[s]}
    ELSE {Undefined} \cup GeneratedIds

Running == shutdownPc \notin {"exited", "crashed"}

\* --------------------------------------------------------------- initial
\* the locals of one handleHttpRequest call
NewRequest ==
    [pc |-> "new", method |-> "GET", sessionId |-> Undefined,
     state |-> NoState, createdForRequest |-> FALSE,
     response |-> NoResponse, forwardThrew |-> FALSE]

\* the locals of one runAgent invocation, with the `count` of its limiter
\* and the RPCs it has sent
NewRun ==
    [pc |-> "done", agentName |-> "Master", sessionId |-> Null, count |-> 0,
     initializeSent |-> 0, listSent |-> 0, callSent |-> 0, limitThrown |-> 0]

\* the locals of one mcpCreateSession call made by itself, and whether it
\* sent an initialize
NewCreate == [pc |-> "initialize", sessionId |-> Null, initializeSent |-> 0]

\* agent-runner.js after module evaluation, lines 13-14
ClientVars ==
    /\ sharedSessionId = Null
    /\ rpcId = 1
    /\ runs = <<>>
    /\ creates = <<>>
    /\ rpcs = <<>>
    /\ serverSessions = {}

InitVars ==
    /\ ClientVars
    /\ transportMode \in {"http", "stdio"}
    /\ activeSessions = <<>>
    /\ sessionIdOf = [s \in States |-> Undefined]
    /\ constructed = {}
    /\ transportCloses = [s \in States |-> 0]
    /\ serverCloses = [s \in States |-> 0]
    /\ handlers = EmptyBag
    /\ received = 0
    /\ returned = NewRequest
    /\ shutdownPc = "idle"
    /\ drainState = NoState
    /\ drainStart = {}
    /\ terminated = {}

Init == InitVars /\ collide = FALSE

InitCollide == InitVars /\ collide = TRUE

\* the http server after one handshake: a POST without session id built
\* session 1, its transport established the first identifier, lines 424-427
\* registered it and the handler returned.  `received` counts the requests
\* received after that one.
ServingVars ==
    /\ ClientVars
    /\ transportMode = "http"
    /\ activeSessions = <<[key |-> IdName[1], state |-> 1]>>
    /\ sessionIdOf = [s \in States |-> IF s = 1 THEN IdName[1] ELSE Undefined]
    /\ constructed = {1}
    /\ transportCloses = [s \in States |-> 0]
    /\ serverCloses = [s \in States |-> 0]
    /\ handlers = EmptyBag
    /\ received = 0
    /\ returned = [NewRequest EXCEPT !.pc = "done", !.method = "POST",
                                     !.state = 1, !.createdForRequest = TRUE,
                                     !.response = TransportResponse]
    /\ shutdownPc = "idle"
    /\ drainState = NoState
    /\ drainStart = {}
    /\ terminated = {}

\* just constructed, or serving its first session
InitServing == (InitVars \/ ServingVars) /\ collide = FALSE

\* ------------------------------------------------------ handleHttpRequest
Suspended(pc) == {rq \in BagToSet(handlers) : rq.pc = pc}

\* the call with locals `old` runs on to the locals `rq`: it is suspended at
\* its next await, or it has returned
Resume(old, rq) ==
    /\ handlers' = IF rq.pc = "done"
                   THEN handlers (-) SetToBag({old})
                   ELSE (handlers (-) SetToBag({old})) (+) SetToBag({rq})
    /\ returned' = IF rq.pc = "done" THEN rq ELSE NewRequest

\* CatchBlock closing the session whether or not this call constructed it
CatchBlockAlwaysCloses(old, rq) ==
    /\ transportCloses' = [transportCloses EXCEPT ![rq.state] = @ + 1]
    /\ Resume(old, [rq EXCEPT !.pc = "catch440"])

\* lines 438-445 up to the first await
CatchBlock(old, rq) ==
    IF rq.createdForRequest
    THEN /\ transportCloses' = [transportCloses EXCEPT ![rq.state] = @ + 1]
         /\ Resume(old, [rq EXCEPT !.pc = "catch440"])
    ELSE /\ UNCHANGED transportCloses
         /\ Resume(old, [rq EXCEPT
                !.pc = "done",
                !.response = writeJsonError(@, InternalError)])

\* TerminateBlock with activeSessions.clear() in place of line 435
TerminateBlockClears(old, rq, table) ==
    IF IsTerminate(rq.method, rq.sessionId)
    THEN /\ activeSessions' = <<>>
         /\ serverCloses' = [serverCloses EXCEPT ![rq.state] = @ + 1]
         /\ Resume(old, [rq EXCEPT !.pc = "close436"])
    ELSE /\ activeSessions' = table
         /\ UNCHANGED serverCloses
         /\ Resume(old, [rq EXCEPT !.pc = "done"])

\* lines 434-437 up to the await, entered with the table so far
TerminateBlock(old, rq, table) ==
    IF IsTerminate(rq.method, rq.sessionId)
    THEN /\ activeSessions' = MapDelete(table, rq.sessionId)
         /\ serverCloses' = [serverCloses EXCEPT ![rq.state] = @ + 1]
         /\ Resume(old, [rq EXCEPT !.pc = "close436"])
    ELSE /\ activeSessions' = table
         /\ UNCHANGED serverCloses
         /\ Resume(old, [rq EXCEPT !.pc = "done"])

\* lines 391-419 and the call of line 414 (383) or of line 422.  A request
\* arrives while the http server has connections: activeHttpServer.close
\* (line 488) stops the listening only, so until its callback has run a
\* connection that is still open can carry another request.
Receive ==
    /\ Running
    /\ transportMode = "http"
    /\ shutdownPc \in {"idle", "closeHttp"}
    /\ received < MaxReqs
    /\ BagCardinality(handlers) < MaxInFlight
    /\ received' = received + 1
    /\ UNCHANGED <<clientVars, transportMode, collide, activeSessions, sessionIdOf,
                   transportCloses, serverCloses, shutdownPc,
                   drainState, drainStart, terminated>>
    /\ \E path \in RequestPaths :
        IF path # "/mcp"
        THEN /\ Resume(NewRequest, [NewRequest EXCEPT
                    !.pc = "done", !.response = PathNotFound])
             /\ UNCHANGED constructed
        ELSE \E method \in RequestMethods, sessionId \in SessionIdHeaders :
             LET rq == [NewRequest EXCEPT !.method = method,
                                          !.sessionId = sessionId]
                 decision == Dispatch(sessionId, method, activeSessions)
             IN  CASE decision = "notFound" ->
                        /\ Resume(NewRequest, [rq EXCEPT
                              !.pc = "done",
                              !.response = writeJsonError(@, SessionNotFound)])
                        /\ UNCHANGED constructed
                   [] decision = "forward" ->
                        /\ Resume(NewRequest, [rq EXCEPT
                              !.pc = "forward",
                              !.state = MapGet(activeSessions, sessionId)])
                        /\ UNCHANGED constructed
                   [] decision = "create" ->
                        /\ Cardinality(constructed) < MaxSessions
                        /\ Resume(NewRequest, [rq EXCEPT
                              !.pc = "connect",
                              !.state = Cardinality(constructed) + 1])
                        /\ constructed' =
                              constructed \cup {Cardinality(constructed) + 1}
                   [] OTHER ->
                        /\ Resume(NewRequest, [rq EXCEPT
                              !.pc = "done",
                              !.response = writeJsonError(@, MissingSessionId)])
                        /\ UNCHANGED constructed

\* lines 383-384 and 414-415: server.connect resolved, then line 422 is called
ConnectReturn ==
    /\ Running
    /\ UNCHANGED <<clientVars, transportMode, collide, activeSessions, sessionIdOf,
                   constructed, transportCloses, serverCloses, received,
                   shutdownPc, drainState, drainStart, terminated>>
    /\ \E old \in Suspended("connect") :
        Resume(old, [old EXCEPT !.pc = "forward",
                                !.createdForRequest = TRUE])

\* line 422 resolved, then lines 424-437 up to the next await
ForwardReturn ==
    /\ Running
    /\ UNCHANGED <<clientVars, transportMode, collide, constructed, received,
                   shutdownPc, drainState, drainStart, terminated>>
    /\ \E old \in Suspended("forward") :
       \E established \in SessionIdAfter(old.state) :
        LET s == old.state
            rq == [old EXCEPT
                      !.response = writeJsonError(@, TransportResponse)]
            table == RegisterEstablished(activeSessions, established, s)
        IN  /\ sessionIdOf' = [sessionIdOf EXCEPT ![s] = established]
            /\ IF NeedsTeardown(rq.createdForRequest, established)
               THEN /\ activeSessions' = table
                    /\ transportCloses' =
                          [transportCloses EXCEPT ![s] = @ + 1]
                    /\ Resume(old, [rq EXCEPT !.pc = "close430"])
                    /\ UNCHANGED serverCloses
               ELSE /\ TerminateBlock(old, rq, table)
                    /\ UNCHANGED transportCloses

\* line 422 rejected: the catch block up to its first await
ForwardThrow ==
    /\ Running
    /\ UNCHANGED <<clientVars, transportMode, collide, activeSessions, constructed,
                   serverCloses, received, shutdownPc,
                   drainState, drainStart, terminated>>
    /\ \E old \in Suspended("forward") :
       \E established \in SessionIdAfter(old.state), headersSent \in BOOLEAN :
        LET rq == [old EXCEPT
                      !.forwardThrew = TRUE,
                      !.response = IF headersSent
                                   THEN writeJsonError(@, TransportResponse)
                                   ELSE @]
        IN  /\ sessionIdOf' = [sessionIdOf EXCEPT ![old.state] = established]
            /\ CatchBlock(old, rq)

\* line 430 settled
Close430Return ==
    /\ Running
    /\ UNCHANGED <<clientVars, transportMode, collide, activeSessions, sessionIdOf,
                   constructed, received, shutdownPc, drainState, drainStart,
                   terminated>>
    /\ \E old \in Suspended("close430"), ok \in BOOLEAN :
        IF ok
        THEN /\ serverCloses' = [serverCloses EXCEPT ![old.state] = @ + 1]
             /\ Resume(old, [old EXCEPT !.pc = "close431"])
             /\ UNCHANGED transportCloses
        ELSE /\ CatchBlock(old, old)
             /\ UNCHANGED serverCloses

\* line 431 settled
Close431Return ==
    /\ Running
    /\ UNCHANGED <<clientVars, transportMode, collide, sessionIdOf, constructed,
                   received, shutdownPc, drainState, drainStart, terminated>>
    /\ \E old \in Suspended("close431"), ok \in BOOLEAN :
        IF ok
        THEN /\ TerminateBlock(old, old, activeSessions)
             /\ UNCHANGED transportCloses
        ELSE /\ CatchBlock(old, old)
             /\ UNCHANGED <<activeSessions, serverCloses>>

\* line 436 settled: the handler that ran line 435 returns
Close436Return ==
    /\ Running
    /\ UNCHANGED <<clientVars, transportMode, collide, activeSessions, sessionIdOf,
                   constructed, serverCloses, received, shutdownPc,
                   drainState, drainStart>>
    /\ \E old \in Suspended("close436"), ok \in BOOLEAN :
        /\ terminated' = terminated \cup {old.sessionId}
        /\ IF ok
           THEN /\ Resume(old, [old EXCEPT !.pc = "done"])
                /\ UNCHANGED transportCloses
           ELSE /\ CatchBlock(old, old)

\* line 440 settled (a rejection is swallowed), then line 441 is called
Catch440Return ==
    /\ Running
    /\ UNCHANGED <<clientVars, transportMode, collide, activeSessions, sessionIdOf,
                   constructed, transportCloses, received, shutdownPc,
                   drainState, drainStart, terminated>>
    /\ \E old \in Suspended("catch440") :
        /\ serverCloses' = [serverCloses EXCEPT ![old.state] = @ + 1]
        /\ Resume(old, [old EXCEPT !.pc = "catch441"])

\* Catch441Return without the writeJsonError of line 444
Catch441ReturnSilent ==
    /\ Running
    /\ UNCHANGED <<clientVars, transportMode, collide, activeSessions, sessionIdOf,
                   constructed, transportCloses, serverCloses, received,
                   shutdownPc, drainState, drainStart, terminated>>
    /\ \E old \in Suspended("catch441") :
        /\ Resume(old, [old EXCEPT !.pc = "done"])

\* line 441 settled (a rejection is swallowed), then lines 443-444
Catch441Return ==
    /\ Running
    /\ UNCHANGED <<clientVars, transportMode, collide, activeSessions, sessionIdOf,
                   constructed, transportCloses, serverCloses, received,
                   shutdownPc, drainState, drainStart, terminated>>
    /\ \E old \in Suspended("catch441") :
        /\ Resume(old, [old EXCEPT
              !.pc = "done",
              !.response = writeJsonError(@, InternalError)])

\* --------------------------------------------------------------- shutdown
\* lines 498-508 from the head of the for-of loop to the next await.  Every
\* entry the iterator has passed was deleted when it was visited and a new
\* entry is appended, so the iterator's next entry is the first of the Map.
\* process.exit(0) of line 508 ends every suspended handler with the process.
DrainLoop(table) ==
    IF table # <<>>
    THEN /\ activeSessions' = MapDelete(table, table[1].key)
         /\ drainState' = table[1].state
         /\ transportCloses' =
               [transportCloses EXCEPT ![table[1].state] = @ + 1]
         /\ shutdownPc' = "drain500"
         /\ UNCHANGED handlers
    ELSE /\ activeSessions' = table
         /\ drainState' = NoState
         /\ UNCHANGED transportCloses
         /\ IF transportMode = "stdio"
            THEN shutdownPc' = "closeStdio" /\ UNCHANGED handlers
            ELSE shutdownPc' = "exited" /\ handlers' = EmptyBag

\* ShutdownStart that does not wait for the http server to close
ShutdownStartNoWait ==
    /\ shutdownPc = "idle"
    /\ DrainLoop(activeSessions)
    /\ drainStart' = MapStates(activeSessions)
    /\ UNCHANGED <<clientVars, transportMode, collide, sessionIdOf, constructed,
                   serverCloses, received, terminated>>
    /\ returned' = NewRequest

\* SIGINT or SIGTERM: lines 485-496 up to the first await
ShutdownStart ==
    /\ shutdownPc = "idle"
    /\ IF transportMode = "http"
       THEN /\ shutdownPc' = "closeHttp"
            /\ UNCHANGED <<activeSessions, drainState, transportCloses,
                           drainStart, handlers>>
       ELSE /\ DrainLoop(activeSessions)
            /\ drainStart' = MapStates(activeSessions)
    /\ UNCHANGED <<clientVars, transportMode, collide, sessionIdOf, constructed,
                   serverCloses, received, terminated>>
    /\ returned' = NewRequest

\* the callback of activeHttpServer.close: every connection has ended
\* (a client may drop its connection while its handler is suspended)
HttpClosed ==
    /\ shutdownPc = "closeHttp"
    /\ drainStart' = MapStates(activeSessions)
    /\ DrainLoop(activeSessions)
    /\ UNCHANGED <<clientVars, transportMode, collide, sessionIdOf, constructed,
                   serverCloses, received, terminated>>
    /\ returned' = NewRequest

\* line 500 settled (a rejection is swallowed), then line 501 is called
Drain500Return ==
    /\ shutdownPc = "drain500"
    /\ serverCloses' = [serverCloses EXCEPT ![drainState] = @ + 1]
    /\ shutdownPc' = "drain501"
    /\ UNCHANGED <<clientVars, transportMode, collide, activeSessions, sessionIdOf,
                   constructed, transportCloses, handlers, received,
                   drainState, drainStart, terminated>>
    /\ returned' = NewRequest

\* line 501 settled (a rejection is swallowed), then the next iteration
Drain501Return ==
    /\ shutdownPc = "drain501"
    /\ DrainLoop(activeSessions)
    /\ UNCHANGED <<clientVars, transportMode, collide, sessionIdOf, constructed,
                   serverCloses, received, drainStart, terminated>>
    /\ returned' = NewRequest

\* SIGINT or SIGTERM while shutdown is running on the http server: the
\* second shutdown() calls activeHttpServer.close on a server that is no
\* longer listening, so its callback gets an error when the server's close
\* event is emitted and line 490 rejects the promise of line 487.  Nothing
\* handles the rejection of `void shutdown()` (lines 516-522): the runtime
\* ends the process with exit code 1 or, when configured to warn only, goes
\* on.  While the first shutdown awaits the close (lines 487-495) the event
\* resumes it first, so it runs lines 498-500, or to process.exit(0) when
\* the table is empty, before the rejection is processed; during the drain
\* the event is emitted at once.
ShutdownAgain ==
    /\ transportMode = "http"
    /\ shutdownPc \in {"closeHttp", "drain500", "drain501"}
    /\ UNCHANGED <<clientVars, transportMode, collide, sessionIdOf, constructed,
                   serverCloses, received, terminated>>
    /\ \E crash \in (IF shutdownPc = "closeHttp" /\ activeSessions = <<>>
                      THEN {FALSE} ELSE BOOLEAN) :
        IF shutdownPc = "closeHttp"
        THEN /\ drainStart' = MapStates(activeSessions)
             /\ IF crash /\ activeSessions # <<>>
                THEN /\ activeSessions' =
                          MapDelete(activeSessions, activeSessions[1].key)
                     /\ drainState' = activeSessions[1].state
                     /\ transportCloses' =
                          [transportCloses EXCEPT
                              ![activeSessions[1].state] = @ + 1]
                     /\ shutdownPc' = "crashed"
                     /\ handlers' = EmptyBag
                ELSE DrainLoop(activeSessions)
        ELSE /\ shutdownPc' = IF crash THEN "crashed" ELSE shutdownPc
             /\ handlers' = IF crash THEN EmptyBag ELSE handlers
             /\ UNCHANGED <<activeSessions, drainState, transportCloses,
                            drainStart>>
    /\ returned' = NewRequest

\* line 505 settled (a rejection is swallowed), then process.exit(0)
StdioClosed ==
    /\ shutdownPc = "closeStdio"
    /\ shutdownPc' = "exited"
    /\ handlers' = EmptyBag
    /\ UNCHANGED <<clientVars, transportMode, collide, activeSessions, sessionIdOf,
                   constructed, transportCloses, serverCloses, received,
                   drainState, drainStart, terminated>>
    /\ returned' = NewRequest

\* ------------------------------------------------- client: agent-runner.js
\* One step is again one run of JavaScript between two awaits.  fetch and
\* the server behind it are the environment: an RPC is sent in one step and
\* mcpRpc returns or throws in a later step.

\* lines 5-11
TOOL_BY_AGENT ==
    [a \in AgentNames \ {"Other"} |->
        CASE a = "Master" -> Null
          [] a = "Triage" -> "create_ticket"
          [] a = "Investigator" -> "query_logs"
          [] a = "Fix_Engineer" -> "suggest_remediation"
          [] a = "Reporter" -> "notify"]

\* `if (x)` on a string or null
Present(x) == x # Null /\ x # ""

\* lines 16-20: the id used, and the counter afterwards
nextRpcId(counter) == [id |-> counter, rpcId |-> counter + 1]

\* a limiter that counts but never refuses
callToolUnlimited(count) == [count |-> count + 1, threw |-> FALSE]

\* lines 228-231: the count afterwards, and whether callTool throws before
\* reaching mcpRpc
callTool(count) == [count |-> count + 1, threw |-> count + 1 > 1]

\* the id the server registers for the next initialize it answers
ServerSessionId == IdName[Cardinality(serverSessions) + 1]

RunsAt(pc) == {i \in DOMAIN runs : runs[i].pc = pc}

CreatesAt(pc) == {c \in DOMAIN creates : creates[c].pc = pc}

\* calls of the exported functions made so far
CallsMade == Len(runs) + Len(creates) + Len(rpcs)

\* runAgent(agentName, ...) is called: lines 279-290, through
\* mcpCreateSession lines 196-201, up to the first await; a run without
\* tool goes on to line 314
RunAgent ==
    /\ CallsMade < MaxCalls
    /\ \E agentName \in AgentNames :
        LET run == [NewRun EXCEPT !.agentName = agentName] IN
        IF agentName \notin DOMAIN TOOL_BY_AGENT
        THEN /\ runs' = Append(runs, [run EXCEPT !.pc = "threw"])
             /\ UNCHANGED rpcId
        ELSE IF ~Present(TOOL_BY_AGENT[agentName])
        THEN /\ runs' = Append(runs, run)
             /\ UNCHANGED rpcId
        ELSE IF Present(sharedSessionId)
        THEN /\ runs' = Append(runs, [run EXCEPT
                                         !.pc = "session",
                                         !.sessionId = sharedSessionId])
             /\ UNCHANGED rpcId
        ELSE /\ runs' = Append(runs, [run EXCEPT !.pc = "initialize",
                                                 !.initializeSent = 1])
             /\ rpcId' = nextRpcId(rpcId).rpcId
    /\ UNCHANGED <<serverVars, sharedSessionId, creates, rpcs,
                   serverSessions>>

\* mcpCreateSession() is called by itself: lines 196-201 up to the await,
\* or to the return of line 198
McpCreateSession ==
    /\ CallsMade < MaxCalls
    /\ IF Present(sharedSessionId)
       THEN /\ creates' = Append(creates,
                    [NewCreate EXCEPT !.pc = "done",
                                      !.sessionId = sharedSessionId])
            /\ UNCHANGED rpcId
       ELSE /\ creates' = Append(creates,
                    [NewCreate EXCEPT !.initializeSent = 1])
            /\ rpcId' = nextRpcId(rpcId).rpcId
    /\ UNCHANGED <<serverVars, sharedSessionId, runs, rpcs, serverSessions>>

\* mcpRpc(sessionId, method, params) is called by itself: lines 156-167 up
\* to the await
McpRpc ==
    /\ CallsMade < MaxCalls
    /\ \E method \in RpcMethods, sessionId \in {Null} \cup ClientIds :
        rpcs' = Append(rpcs, [pc |-> "sent", method |-> method,
                              sessionId |-> sessionId])
    /\ rpcId' = nextRpcId(rpcId).rpcId
    /\ UNCHANGED <<serverVars, sharedSessionId, runs, creates,
                   serverSessions>>

\* line 201 resolved: the server registered a session and answered; then
\* lines 209-215 up to the next await.  A response without the header
\* comes from a server that keeps no sessions.
InitializeReturn ==
    /\ \E header \in {Null, ServerSessionId} :
        /\ \/ /\ \E i \in RunsAt("initialize") :
                   runs' = IF ~Present(header)
                           THEN [runs EXCEPT ![i].pc = "threw"]
                           ELSE [runs EXCEPT ![i].pc = "list",
                                             ![i].sessionId = header,
                                             ![i].listSent = 1]
              /\ UNCHANGED creates
           \/ /\ \E c \in CreatesAt("initialize") :
                   creates' = IF ~Present(header)
                              THEN [creates EXCEPT ![c].pc = "threw"]
                              ELSE [creates EXCEPT ![c].pc = "list",
                                                   ![c].sessionId = header]
              /\ UNCHANGED runs
        /\ IF ~Present(header)
           THEN UNCHANGED <<rpcId, serverSessions>>
           ELSE /\ rpcId' = nextRpcId(rpcId).rpcId
                /\ serverSessions' = serverSessions \cup {header}
    /\ UNCHANGED <<serverVars, sharedSessionId, rpcs>>

\* line 201 threw (fetch rejected, non-JSON body, error payload)
InitializeThrow ==
    /\ \/ /\ \E i \in RunsAt("initialize") :
               runs' = [runs EXCEPT ![i].pc = "threw"]
          /\ UNCHANGED creates
       \/ /\ \E c \in CreatesAt("initialize") :
               creates' = [creates EXCEPT ![c].pc = "threw"]
          /\ UNCHANGED runs
    /\ UNCHANGED <<serverVars, sharedSessionId, rpcId, rpcs, serverSessions>>

\* line 215 resolved, then lines 216-217
ListReturn ==
    /\ \/ /\ \E i \in RunsAt("list") :
               /\ sharedSessionId' = runs[i].sessionId
               /\ runs' = [runs EXCEPT ![i].pc = "session"]
          /\ UNCHANGED creates
       \/ /\ \E c \in CreatesAt("list") :
               /\ sharedSessionId' = creates[c].sessionId
               /\ creates' = [creates EXCEPT ![c].pc = "done"]
          /\ UNCHANGED runs
    /\ UNCHANGED <<serverVars, rpcId, rpcs, serverSessions>>

\* line 215 threw
ListThrow ==
    /\ \/ /\ \E i \in RunsAt("list") :
               runs' = [runs EXCEPT ![i].pc = "threw"]
          /\ UNCHANGED creates
       \/ /\ \E c \in CreatesAt("list") :
               creates' = [creates EXCEPT ![c].pc = "threw"]
          /\ UNCHANGED runs
    /\ UNCHANGED <<serverVars, sharedSessionId, rpcId, rpcs, serverSessions>>

\* line 290 resolved, then lines 291-300 (the limiter starts with count 0)
\* and callTool lines 228-233 up to the await
SessionReturn ==
    /\ \E i \in RunsAt("session") :
        LET r == callTool(0) IN
        IF r.threw
        THEN /\ runs' = [runs EXCEPT ![i].pc = "threw",
                                     ![i].count = r.count,
                                     ![i].limitThrown = @ + 1]
             /\ UNCHANGED rpcId
        ELSE /\ runs' = [runs EXCEPT ![i].pc = "call",
                                     ![i].count = r.count,
                                     ![i].callSent = @ + 1]
             /\ rpcId' = nextRpcId(rpcId).rpcId
    /\ UNCHANGED <<serverVars, sharedSessionId, creates, rpcs,
                   serverSessions>>

\* a further callTool on the limiter of a run whose tools/call is in
\* flight, lines 228-233; runAgent itself calls callTool once
CallToolAgain ==
    /\ \E i \in RunsAt("call") :
        /\ runs[i].count < MaxCount
        /\ LET r == callTool(runs[i].count) IN
           IF r.threw
           THEN /\ runs' = [runs EXCEPT ![i].count = r.count,
                                        ![i].limitThrown = @ + 1]
                /\ UNCHANGED rpcId
           ELSE /\ runs' = [runs EXCEPT ![i].count = r.count,
                                        ![i].callSent = @ + 1]
                /\ rpcId' = nextRpcId(rpcId).rpcId
    /\ UNCHANGED <<serverVars, sharedSessionId, creates, rpcs,
                   serverSessions>>

\* line 233 resolved, then lines 238-246 and runAgent lines 302-314
CallReturn ==
    /\ \E i \in RunsAt("call") :
        runs' = [runs EXCEPT ![i].pc = IF runs[i].count > 1
                                       THEN "threw" ELSE "done"]
    /\ UNCHANGED <<serverVars, sharedSessionId, rpcId, creates, rpcs,
                   serverSessions>>

\* line 233 threw
CallThrow ==
    /\ \E i \in RunsAt("call") :
        runs' = [runs EXCEPT ![i].pc = "threw"]
    /\ UNCHANGED <<serverVars, sharedSessionId, rpcId, creates, rpcs,
                   serverSessions>>

\* a direct mcpRpc call returned, lines 167-193; the server registers a
\* session for an initialize that carries no session id
RpcReturn ==
    /\ \E k \in DOMAIN rpcs :
        /\ rpcs[k].pc = "sent"
        /\ rpcs' = [rpcs EXCEPT ![k].pc = "returned"]
        /\ IF rpcs[k].method = "initialize" /\ ~Present(rpcs[k].sessionId)
           THEN \E header \in {Null, ServerSessionId} :
                   serverSessions' = serverSessions \cup ({header} \ {Null})
           ELSE UNCHANGED serverSessions
    /\ UNCHANGED <<serverVars, sharedSessionId, rpcId, runs, creates>>

\* a direct mcpRpc call threw, lines 167-188
RpcThrow ==
    /\ \E k \in DOMAIN rpcs :
        /\ rpcs[k].pc = "sent"
        /\ rpcs' = [rpcs EXCEPT ![k].pc = "threw"]
    /\ UNCHANGED <<serverVars, sharedSessionId, rpcId, runs, creates,
                   serverSessions>>

ClientNext ==
    \/ RunAgent
    \/ McpCreateSession
    \/ McpRpc
    \/ InitializeReturn
    \/ InitializeThrow
    \/ ListReturn
    \/ ListThrow
    \/ SessionReturn
    \/ CallToolAgain
    \/ CallReturn
    \/ CallThrow
    \/ RpcReturn
    \/ RpcThrow

\* the client process, with the server of the model left as constructed
InitClient == Init /\ transportMode = "http"

SpecClient == InitClient /\ [][ClientNext]_vars

\* ---------------------------------------------------------- specification
Next ==
    \/ Receive
    \/ ConnectReturn
    \/ ForwardReturn
    \/ ForwardThrow
    \/ Close430Return
    \/ Close431Return
    \/ Close436Return
    \/ Catch440Return
    \/ Catch441Return
    \/ ShutdownStart
    \/ HttpClosed
    \/ Drain500Return
    \/ Drain501Return
    \/ ShutdownAgain
    \/ StdioClosed

Spec == Init /\ [][Next]_vars

SpecCollide == InitCollide /\ [][Next]_vars

SpecServing == InitServing /\ [][Next]_vars

\* Every awaited SDK call settles and every settled await is resumed by the
\* event loop, and a shutdown that has started runs on.  Requests and
\* signals arrive or not.
Fairness ==
    /\ WF_vars(ConnectReturn)
    /\ WF_vars(ForwardReturn \/ ForwardThrow)
    /\ WF_vars(Close430Return)
    /\ WF_vars(Close431Return)
    /\ WF_vars(Close436Return)
    /\ WF_vars(Catch440Return)
    /\ WF_vars(Catch441Return)
    /\ WF_vars(HttpClosed)
    /\ WF_vars(Drain500Return)
    /\ WF_vars(Drain501Return)
    /\ WF_vars(StdioClosed)

SpecLive == Init /\ [][Next]_vars /\ Fairness

TypeOK ==
    /\ transportMode \in {"http", "stdio"}
    /\ collide \in BOOLEAN
    /\ \A i \in 1..Len(activeSessions) :
          activeSessions[i].state \in States
    /\ constructed \subseteq States
    /\ received \in 0..MaxReqs
    /\ shutdownPc \in {"idle", "closeHttp", "drain500", "drain501",
                       "closeStdio", "exited", "crashed"}
    /\ sharedSessionId \in {Null} \cup serverSessions
    /\ rpcId \in 1..(1 + 3 * MaxCalls)
    /\ CallsMade <= MaxCalls
    /\ \A c \in DOMAIN creates :
          creates[c].pc \in {"initialize", "list", "done", "threw"}
    /\ \A k \in DOMAIN rpcs :
          /\ rpcs[k].pc \in {"sent", "returned", "threw"}
          /\ rpcs[k].method \in RpcMethods
    /\ \A i \in DOMAIN runs :
          /\ runs[i].pc \in {"initialize", "list", "session",
                              "call", "done", "threw"}
          /\ runs[i].agentName \in AgentNames
          /\ runs[i].count \in 0..MaxCount

\* ------------------------------------------------------------ properties
\* the handleHttpRequest call that a Receive step started: it has returned
\* in that step or it is the call added to the suspended ones
Received == received' = received + 1

NewCall ==
    IF returned'.pc = "done"
    THEN returned'
    ELSE CHOOSE rq \in BagToSet(handlers') :
            CopiesIn(rq, handlers') > CopiesIn(rq, handlers)

\* the request was addressed to the MCP endpoint (line 393)
OnMcp(rq) == rq.response # PathNotFound

NoSessionTouched ==
    /\ activeSessions' = activeSessions
    /\ constructed' = constructed
    /\ sessionIdOf' = sessionIdOf
    /\ transportCloses' = transportCloses
    /\ serverCloses' = serverCloses

UniqueKeys(m) ==
    \A i \in 1..Len(m), j \in 1..Len(m) : m[i].key = m[j].key => i = j

\* C1: the table never holds two sessions under one identifier, and no step
\* replaces the session registered under an identifier by another session:
\* an identifier present before and after a step maps to the same session.
C1_OneSessionPerId ==
    [][/\ UniqueKeys(activeSessions')
       /\ \A i \in 1..Len(activeSessions) :
            MapHas(activeSessions', activeSessions[i].key) =>
                MapGet(activeSessions', activeSessions[i].key)
                    = activeSessions[i].state]_vars

\* a transport established an identifier that is registered for another
\* session, and that session is still the one registered
C1_Witness ==
    \E s \in constructed :
        /\ Truthy(sessionIdOf[s])
        /\ MapHas(activeSessions, sessionIdOf[s])
        /\ MapGet(activeSessions, sessionIdOf[s]) # s
        /\ returned.pc = "done"
        /\ returned.state = s

\* C2: when a handler that constructed a session returns and the session is
\* not registered, transport.close and server.close have each been called
\* exactly once on it.
C2_TornDownOnce ==
    (/\ returned.pc = "done"
     /\ returned.createdForRequest
     /\ returned.state \notin MapStates(activeSessions))
    => (/\ transportCloses[returned.state] = 1
        /\ serverCloses[returned.state] = 1)

\* C3: a request to the endpoint whose session id is not in the table is
\* answered 404 / -32001 whatever its method, in the step that receives it,
\* and that step touches neither the table nor any session.
C3_UnknownSessionRejected ==
    [][(/\ Received
        /\ OnMcp(NewCall)
        /\ Truthy(NewCall.sessionId)
        /\ ~MapHas(activeSessions, NewCall.sessionId))
       => (/\ NewCall.pc = "done"
           /\ NewCall.response = SessionNotFound
           /\ NewCall.state = NoState
           /\ NoSessionTouched)]_vars

\* a POST with an unknown id was rejected while another session is registered
C3_Witness ==
    /\ returned.pc = "done"
    /\ returned.method = "POST"
    /\ returned.response = SessionNotFound
    /\ ~MapHas(activeSessions, returned.sessionId)
    /\ activeSessions # <<>>

\* C4: a request to the endpoint without a session id whose method is not
\* POST is answered 400 / -32000 in the step that receives it, and that step
\* constructs no session and leaves the table unchanged.
C4_MissingSessionIdRejected ==
    [][(/\ Received
        /\ OnMcp(NewCall)
        /\ ~Truthy(NewCall.sessionId)
        /\ NewCall.method # "POST")
       => (/\ NewCall.pc = "done"
           /\ NewCall.response = MissingSessionId
           /\ NewCall.state = NoState
           /\ NoSessionTouched)]_vars

\* a DELETE without a session id was rejected while a session is registered
C4_Witness ==
    /\ returned.pc = "done"
    /\ returned.method = "DELETE"
    /\ ~Truthy(returned.sessionId)
    /\ returned.response = MissingSessionId
    /\ activeSessions # <<>>

\* C5: once a DELETE handler has removed its session id and returned, that
\* id is absent from the table, so a later request carrying it is answered
\* session-not-found.
C5_TerminatedAbsent ==
    \A k \in terminated : ~MapHas(activeSessions, k)

\* C6: when shutdown has run to process.exit the table is empty and every
\* session that was registered when the drain began has been torn down
\* exactly once (one server.close, at most one transport.close).
C6_ShutdownDrainsOnce ==
    shutdownPc = "exited" =>
        /\ activeSessions = <<>>
        /\ \A s \in drainStart :
              serverCloses[s] = 1 /\ transportCloses[s] <= 1

\* a handler returned in this step after transport.handleRequest resolved
ForwardedOk ==
    /\ returned'.pc = "done"
    /\ ~returned'.forwardThrew
    /\ returned'.response = TransportResponse

\* a step of handleHttpRequest: a request is received or a suspended call
\* runs on, and shutdown does not move
HandlerStep ==
    /\ shutdownPc' = shutdownPc
    /\ (handlers' # handlers \/ Received)

\* C7: the handshake of a constructed session adds exactly one entry, a
\* forwarded non-DELETE request that carried a session id found in the table
\* leaves the table as it was, and a handler step shrinks the table only by
\* the DELETE of its own id.
C7_ForwardKeepsTable ==
    [][/\ (ForwardedOk /\ returned'.createdForRequest
              /\ Truthy(sessionIdOf'[returned'.state]))
          => Len(activeSessions') = Len(activeSessions) + 1
       /\ (ForwardedOk /\ Truthy(returned'.sessionId)
              /\ returned'.method # "DELETE")
          => activeSessions' = activeSessions
       /\ (HandlerStep /\ Len(activeSessions') < Len(activeSessions))
          => \E rq \in BagToSet(handlers') :
                /\ rq.pc = "close436"
                /\ rq.method = "DELETE"
                /\ MapHas(activeSessions, rq.sessionId)
                /\ activeSessions' = MapDelete(activeSessions, rq.sessionId)
      ]_vars

DistinctIds ==
    \A s \in constructed, t \in constructed :
        (Truthy(sessionIdOf[s]) /\ sessionIdOf[s] = sessionIdOf[t]) => s = t

\* C8: handshakes succeed independently of one another: whatever else is
\* suspended, the handshake that established an identifier appends the entry
\* (its identifier, its own session) and keeps every other entry, and two
\* sessions never hold the same identifier.
C8_IndependentHandshakes ==
    /\ []DistinctIds
    /\ [][(ForwardedOk /\ returned'.createdForRequest
              /\ Truthy(sessionIdOf'[returned'.state]))
          => /\ ~MapHas(activeSessions, sessionIdOf'[returned'.state])
             /\ activeSessions' =
                   Append(activeSessions,
                          [key |-> sessionIdOf'[returned'.state],
                           state |-> returned'.state])]_vars

\* two entries under two identifiers; the session constructed second was
\* registered first, so the two handshakes overlapped
C8_Witness ==
    /\ Len(activeSessions) = 2
    /\ activeSessions[1].state = 2
    /\ activeSessions[2].state = 1
    /\ activeSessions[1].key # activeSessions[2].key
    /\ sessionIdOf[1] = activeSessions[2].key
    /\ sessionIdOf[2] = activeSessions[1].key

\* C9: every entry's key is the (truthy) transport.sessionId of its session,
\* so a session whose transport has no identifier is not in the table.
C9_KeyIsTransportId ==
    \A i \in 1..Len(activeSessions) :
        /\ Truthy(activeSessions[i].key)
        /\ activeSessions[i].key = sessionIdOf[activeSessions[i].state]

\* a session is registered while another one, whose handshake yielded no
\* identifier, has been forwarded to and is absent from the table
C9_Witness ==
    /\ activeSessions # <<>>
    /\ \E s \in constructed :
          /\ sessionIdOf[s] = Undefined
          /\ transportCloses[s] >= 1
          /\ s \notin MapStates(activeSessions)

\* the calls whose forwarding threw on the session they constructed
ThrewOnCreated ==
    {rq \in BagToSet(handlers) \cup {returned} :
        rq.createdForRequest /\ rq.forwardThrew}

\* C10 as stated: the session is never registered and the request is
\* answered 500 / -32603.
C10_Original ==
    \A rq \in ThrewOnCreated :
        /\ rq.state \notin MapStates(activeSessions)
        /\ rq.pc = "done" => rq.response = InternalError

\* C10 amended: the session is never registered, and the request is answered
\* 500 / -32603 unless the transport had already started the response, which
\* is then left as it is.
C10_Amended ==
    \A rq \in ThrewOnCreated :
        /\ rq.state \notin MapStates(activeSessions)
        /\ rq.pc = "done" =>
              rq.response \in {InternalError, TransportResponse}
        /\ (rq.pc # "done" /\ rq.response # TransportResponse) =>
              rq.response = NoResponse

\* forwarding threw before any header was sent, the constructed session was
\* closed and the 500 was written
C10_Witness ==
    /\ returned.pc = "done"
    /\ returned.createdForRequest
    /\ returned.forwardThrew
    /\ returned.response = InternalError
    /\ transportCloses[returned.state] = 1
    /\ serverCloses[returned.state] = 1
    /\ returned.state \notin MapStates(activeSessions)

\* the calls whose forwarding threw on a session they looked up in the table
ThrewOnExisting(calls) ==
    {rq \in calls : rq.forwardThrew /\ ~rq.createdForRequest}

\* C11: a forwarding failure on a pre-existing session, whatever the method,
\* removes nothing from the table and closes nothing: the handler returns in
\* the step in which transport.handleRequest threw (it is never suspended in
\* a close call) and that step leaves the table and all close counts as
\* they were.
C11_FailedForwardKeepsSession ==
    /\ [](ThrewOnExisting(BagToSet(handlers)) = {})
    /\ [][ThrewOnExisting({returned'}) # {}
          => /\ activeSessions' = activeSessions
             /\ transportCloses' = transportCloses
             /\ serverCloses' = serverCloses]_vars

\* a DELETE whose forwarding threw has returned, and its session is still
\* registered under its id and has never been closed
C11_Witness ==
    /\ ThrewOnExisting({returned}) # {}
    /\ returned.pc = "done"
    /\ returned.method = "DELETE"
    /\ MapHas(activeSessions, returned.sessionId)
    /\ MapGet(activeSessions, returned.sessionId) = returned.state
    /\ transportCloses[returned.state] = 0
    /\ serverCloses[returned.state] = 0

\* C12: when a handshake established an identifier under which another
\* session is registered, the handler that lost the registration has closed
\* the session it constructed (transport and server) by the time it returns.
\* Two constructed sessions establish the same identifier only when the
\* generator of line 380 repeats one, which randomUUID does not: with fresh
\* identifiers the premise is never met.
C12_LoserClosesSession ==
    (/\ returned.pc = "done"
     /\ returned.createdForRequest
     /\ ~returned.forwardThrew
     /\ Truthy(sessionIdOf[returned.state])
     /\ MapHas(activeSessions, sessionIdOf[returned.state])
     /\ MapGet(activeSessions, sessionIdOf[returned.state]) # returned.state)
    => (/\ transportCloses[returned.state] >= 1
        /\ serverCloses[returned.state] >= 1)

\* transport.handleRequest is called on rq.state in this step (line 422)
ForwardCalled(rq) ==
    /\ rq.pc = "forward"
    /\ CopiesIn(rq, handlers') > CopiesIn(rq, handlers)

\* C13: no request is forwarded to a session whose teardown has begun: in
\* every step that calls transport.handleRequest on a session, neither
\* transport.close nor server.close has been called on that session.
C13_NoForwardToTornDown ==
    [][\A rq \in BagToSet(handlers') :
          ForwardCalled(rq) => /\ transportCloses[rq.state] = 0
                               /\ serverCloses[rq.state] = 0]_vars

\* C14: shutdown closes the http server first: the step that starts it only
\* issues the close and touches neither the table nor any session, and once
\* the close has completed no request is received.  When shutdown has exited
\* the table is empty and every session that was registered when the http
\* close completed has had its server closed.
C14_StopThenDrain ==
    /\ [](shutdownPc = "exited" =>
            /\ activeSessions = <<>>
            /\ \A s \in drainStart : serverCloses[s] >= 1)
    /\ [][(shutdownPc = "idle" /\ shutdownPc' # "idle"
             /\ transportMode = "http")
          => /\ shutdownPc' = "closeHttp"
             /\ activeSessions' = activeSessions
             /\ transportCloses' = transportCloses
             /\ serverCloses' = serverCloses]_vars
    /\ [][shutdownPc \notin {"idle", "closeHttp"}
             => received' = received]_vars

\* shutdown has exited after draining two registered sessions, each closed
\* once by the drain
C14_Witness ==
    /\ shutdownPc = "exited"
    /\ Cardinality(drainStart) = 2
    /\ \A s \in drainStart :
          transportCloses[s] = 1 /\ serverCloses[s] = 1

\* C15: a second shutdown invocation does not fail: the process is never
\* ended by it before shutdown has run to process.exit(0), and at that exit
\* the table is empty, every session registered when the drain began has
\* been closed, and the drain itself closed no session twice.
C15_ShutdownIdempotent ==
    /\ shutdownPc # "crashed"
    /\ shutdownPc = "exited" =>
          /\ activeSessions = <<>>
          /\ \A s \in drainStart :
                transportCloses[s] <= 1 /\ serverCloses[s] >= 1

\* a handleHttpRequest call ran in this step (shutdown did not)
DispatchStep ==
    /\ shutdownPc' = shutdownPc
    /\ (handlers' # handlers \/ returned'.pc = "done")

\* the locals of that call after the step
Stepped ==
    IF returned'.pc = "done"
    THEN returned'
    ELSE CHOOSE rq \in BagToSet(handlers') :
            CopiesIn(rq, handlers') > CopiesIn(rq, handlers)

\* the keys added, removed or mapped to another session by the step
ChangedKeys ==
    {k \in MapKeys(activeSessions) \cup MapKeys(activeSessions') :
        \/ MapHas(activeSessions, k) # MapHas(activeSessions', k)
        \/ MapGet(activeSessions, k) # MapGet(activeSessions', k)}

\* C16: a step of handleHttpRequest, successful or faulting, adds, removes
\* or remaps no key other than the id of the request's header and the id
\* established by the session the call constructed itself.
C16_OnlyOwnKeys ==
    [][(activeSessions' # activeSessions /\ DispatchStep) =>
          ChangedKeys \subseteq
              ({Stepped.sessionId}
               \cup IF Stepped.createdForRequest
                    THEN {sessionIdOf'[Stepped.state]}
                    ELSE {})]_vars

\* a DELETE removed its own id and returned while the entry of another
\* session is still in the table
C16_Witness ==
    /\ returned.pc = "done"
    /\ returned.method = "DELETE"
    /\ returned.response = TransportResponse
    /\ ~MapHas(activeSessions, returned.sessionId)
    /\ serverCloses[returned.state] = 1
    /\ \E i \in 1..Len(activeSessions) :
          /\ activeSessions[i].state # returned.state
          /\ serverCloses[activeSessions[i].state] = 0

\* the cause of a rejection, read from the locals of a returned call
NoIdNonPost(rq) == ~Truthy(rq.sessionId) /\ rq.method # "POST"

IdNotFound(rq) == Truthy(rq.sessionId) /\ rq.state = NoState

\* C17 as stated: a returned call to the endpoint carries -32000 exactly
\* when it had no id and was not a POST, -32001 exactly when its id was not
\* found, and -32603 exactly when forwarding threw.
C17_Original ==
    (returned.pc = "done" /\ OnMcp(returned)) =>
        /\ NoIdNonPost(returned) <=> returned.response.code = -32000
        /\ IdNotFound(returned) <=> returned.response.code = -32001
        /\ returned.forwardThrew <=> returned.response.code = -32603

\* C17 amended: the three codes are never written for another cause, the
\* two dispatch rejections always carry theirs, and a forwarding fault
\* carries -32603 unless the transport had already started the response.
C17_Amended ==
    (returned.pc = "done" /\ OnMcp(returned)) =>
        /\ NoIdNonPost(returned) <=> returned.response.code = -32000
        /\ IdNotFound(returned) <=> returned.response.code = -32001
        /\ returned.response.code = -32603 => returned.forwardThrew
        /\ returned.forwardThrew =>
              returned.response \in {InternalError, TransportResponse}
        /\ returned.response.code \in {-32000, -32001, -32603} =>
              returned.response \in
                  {MissingSessionId, SessionNotFound, InternalError}

\* a GET for a registered session was answered -32603 after its forwarding
\* threw, and the session is still registered
C17_Witness ==
    /\ returned.pc = "done"
    /\ returned.method = "GET"
    /\ returned.forwardThrew
    /\ ~returned.createdForRequest
    /\ returned.response = InternalError
    /\ MapHas(activeSessions, returned.sessionId)

\* transport.close and server.close have both been called on the session
TornDown(s) == transportCloses[s] >= 1 /\ serverCloses[s] >= 1

\* the call that constructed session s has not returned
Constructing(s) ==
    \E rq \in BagToSet(handlers) :
        rq.state = s /\ (rq.pc = "connect" \/ rq.createdForRequest)

\* C18: every session constructed by handleHttpRequest is eventually
\* registered in the table or torn down, whatever happens to its request.
C18_RegisteredOrTornDown ==
    \A s \in States :
        Constructing(s)
            ~> (s \in MapStates(activeSessions) \/ TornDown(s))

\* a close call has been issued on the session
CloseCalled(s) == transportCloses[s] >= 1 \/ serverCloses[s] >= 1

\* C19: an id that was removed from the table is not inserted again.  An
\* entry is removed only together with a close call on its session (lines
\* 435-436 and 499-500), so: no step adds a key for a session on which a
\* close has been called.
C19_NoReRegistration ==
    [][\A k \in MapKeys(activeSessions') \ MapKeys(activeSessions) :
          ~CloseCalled(MapGet(activeSessions', k))]_vars

\* C20: server.close is called at most once on a session that established
\* an identifier, over the whole run.
C20_ServerClosedOnce ==
    \A s \in constructed :
        Truthy(sessionIdOf[s]) => serverCloses[s] <= 1

\* the locals, before the step, of the suspended call that ran in it
SteppedFrom ==
    CHOOSE old \in BagToSet(handlers) :
        CopiesIn(old, handlers) > CopiesIn(old, handlers')

\* C21: every dispatch writes at most one response: once a call's response
\* has been started no later step of that call replaces it, and a call that
\* returns after its forwarding resolved or threw with the response started
\* leaves the transport's response, never an error body on top of it.
C21_AtMostOneResponse ==
    /\ [][(DispatchStep /\ ~Received /\ handlers' # handlers)
          => (SteppedFrom.response # NoResponse
                 => Stepped.response = SteppedFrom.response)]_vars
    /\ [](returned.pc = "done" =>
            /\ (returned.state # NoState /\ ~returned.forwardThrew)
                  => returned.response = TransportResponse
            /\ returned.response.kind \in {"text", "transport", "jsonrpc"})

\* forwarding threw after the transport had started the response, and the
\* call returned with that response and no error written
C21_Witness ==
    /\ returned.pc = "done"
    /\ returned.forwardThrew
    /\ returned.response = TransportResponse
    /\ returned.state # NoState

\* the runAgent invocations that have been called
Called == DOMAIN runs

\* the run that a runAgent call of this step started
Started == runs'[Len(runs')]

\* run i entered callTool in this step
CallToolStep(i) == runs'[i].count > runs[i].count

\* C22: every limiter, hence every runAgent invocation, sends at most one
\* tools/call RPC: the first callTool sends one, every further callTool on
\* the same limiter throws without sending an RPC, and a Master run sends
\* no RPC at all and creates no session.
C22_OneToolCallPerRun ==
    /\ [](\A i \in Called :
            /\ runs[i].callSent <= 1
            /\ runs[i].agentName = "Master" =>
                  /\ runs[i].pc = "done"
                  /\ runs[i].initializeSent + runs[i].listSent
                        + runs[i].callSent = 0)
    /\ [][/\ \A i \in Called :
            /\ (CallToolStep(i) /\ runs[i].count = 0) =>
                  /\ runs'[i].callSent = 1
                  /\ rpcId' = rpcId + 1
                  /\ runs'[i].limitThrown = 0
            /\ (CallToolStep(i) /\ runs[i].count >= 1) =>
                  /\ runs'[i].callSent = runs[i].callSent
                  /\ rpcId' = rpcId
                  /\ runs'[i].limitThrown = runs[i].limitThrown + 1
          /\ (Len(runs') > Len(runs) /\ Started.agentName = "Master") =>
                  /\ rpcId' = rpcId
                  /\ serverSessions' = serverSessions
                  /\ sharedSessionId' = sharedSessionId]_vars

\* a limiter refused a second callTool after its one tools/call, next to a
\* Master run that completed
C22_Witness ==
    /\ \E i \in Called :
          /\ runs[i].count = 2
          /\ runs[i].callSent = 1
          /\ runs[i].limitThrown = 1
    /\ \E j \in Called : runs[j].agentName = "Master" /\ runs[j].pc = "done"

\* a run entered mcpCreateSession in this step (a run with a tool, line 290)
CreateSessionStep ==
    /\ Len(runs') > Len(runs)
    /\ Started.pc \in {"session", "initialize"}

\* the direct mcpCreateSession call of this step
StartedCreate == creates'[Len(creates')]

\* sharedSessionId is assigned only by a run whose initialize returned a
\* session id and whose tools/list succeeded
C23_SetAfterHandshake ==
    [][sharedSessionId' # sharedSessionId =>
          \/ \E i \in RunsAt("list") :
                /\ runs'[i].pc = "session"
                /\ runs[i].initializeSent = 1 /\ runs[i].listSent = 1
                /\ runs[i].sessionId \in serverSessions
                /\ sharedSessionId' = runs[i].sessionId
          \/ \E c \in CreatesAt("list") :
                /\ creates'[c].pc = "done"
                /\ creates[c].initializeSent = 1
                /\ creates[c].sessionId \in serverSessions
                /\ sharedSessionId' = creates[c].sessionId]_vars

\* a call made while the id is cached returns it without sending an RPC
C23_CachedCallSendsNothing ==
    [][/\ (CreateSessionStep /\ Present(sharedSessionId)) =>
             /\ Started.pc = "session"
             /\ Started.sessionId = sharedSessionId
             /\ rpcId' = rpcId
       /\ (Len(creates') > Len(creates) /\ Present(sharedSessionId)) =>
             /\ StartedCreate.pc = "done"
             /\ StartedCreate.sessionId = sharedSessionId
             /\ rpcId' = rpcId]_vars

\* C23: sharedSessionId is set only after initialize returned a session id
\* and tools/list succeeded; once it is set, every later mcpCreateSession
\* call returns that id without sending an RPC, and the cached id never
\* changes again.
C23_SessionCachedOnce ==
    /\ C23_SetAfterHandshake
    /\ C23_CachedCallSendsNothing
    /\ [][Present(sharedSessionId) =>
             sharedSessionId' = sharedSessionId]_vars

\* C24: over any interleaving of runAgent and mcpCreateSession calls at
\* most one initialize is sent, so the server registers at most one session
\* for the client.
C24_OneHandshake ==
    /\ Cardinality({i \in Called : runs[i].initializeSent = 1})
          + Cardinality({c \in DOMAIN creates :
                            creates[c].initializeSent = 1}) <= 1
    /\ Cardinality(serverSessions) <= 1

====
